---- MODULE Spec2Model ----
(***************************************************************************)
(* googletrans.client.Translator: the shared aiohttp session guarded by an *)
(* aiorwlock.RWLock(fast=True), its replacement (change_proxy) and         *)
(* teardown (close), and the public calls translate, translate_to_detect,  *)
(* detect and detect_legacy that issue requests through it.                *)
(*                                                                         *)
(* Every coroutine is a task with a position pc; one action is one run of  *)
(* a task between two suspension points of the event loop.                 *)
(***************************************************************************)
EXTENDS Integers, Sequences, FiniteSets, TLC

\* ------------------------------------------------------------------ bounds
NumTasks == 3      \* coroutines that may be in flight at once (Spec)
MaxOps == 3        \* public calls started in one behaviour of Spec
MaxItems == 2      \* longest list handed to translate / detect_legacy
MaxCalls == 1      \* public calls started in one behaviour of SpecCall
MaxWriterCalls == 1  \* close / change_proxy calls started in one behaviour of SpecLive
MaxUrls == 2       \* longest service_urls list handed to Translator()
MaxRequests == 3   \* requests followed in one behaviour of SpecService
MaxPieces == 6     \* longest response body handed to the scanner, in pieces

Tasks == 1..NumTasks

\* ------------------------------------------------------------ Python values
None == "None"
NoSession == 0                      \* self._session = None / self.connector = None

RPC_ID == "MkEWBc"
HeadLen == 30      \* line[:30], where the quoted RPC id is looked for
EXCLUDES == {"en", "ca", "fr"}

\* googletrans.constants (language tables)
LANGUAGES == {"en", "fr", "la", "et"}
SPECIAL_CASES == [c \in {"ee"} |-> "et"]
LANGCODES == [c \in {"french", "latin"} |-> IF c = "french" THEN "fr" ELSE "la"]

\* proxy arguments: the URL strings a caller can pass
HttpProxy == "http://foo.bar:8080"
SocksProxy == "socks5://foo.bar:1080"
SocksBadProxy == "socks5://"        \* ProxyConnector.from_url raises on it
GoodAuth == "user:pass"             \* a (login, password) tuple
BadAuth == "user"                   \* a tuple with no second element

\* proxy.startswith('socks5') or proxy.startswith('socks4')
IsSocks(proxy) == proxy \in {SocksProxy, SocksBadProxy}

\* ProxyConnector.from_url(proxy) raises ValueError for a URL it cannot parse
FromUrlRaises(proxy) == proxy = SocksBadProxy

\* aiohttp.BasicAuth(proxy_auth[0], proxy_auth[1]) if proxy_auth else None
BasicAuthRaises(proxy_auth) == proxy_auth = BadAuth
BasicAuth(proxy_auth) == IF proxy_auth = None THEN None ELSE proxy_auth

\* -------------------------------------------------------------- aiorwlock
\* RWLock(fast=True): _RWLockCore with _do_yield = False.
\* owning[t] counts the (task, _RL) and (task, _WL) entries of _owning.
NoOwn == [RL |-> 0, WL |-> 0]

NewLock ==
    [r_state |-> 0, w_state |-> 0, owning |-> [t \in Tasks |-> NoOwn],
     read_waiters |-> <<>>, write_waiters |-> <<>>, woken |-> {}]

Owns(l, t, ty) == l.owning[t][ty] > 0

AddOwn(l, t, ty) == [l EXCEPT !.owning[t][ty] = @ + 1]

RemoveWaiter(q, t) == SelectSeq(q, LAMBDA u: u # t)

\* the second test of acquire_read: nobody writes and no writer waits
ReadFree(l) == l.write_waiters = <<>> /\ l.r_state >= 0 /\ l.w_state = 0

\* acquire_read up to its first suspension: granted at once, or queued
acquire_read(l, t) ==
    IF Owns(l, t, "RL") \/ Owns(l, t, "WL") \/ ReadFree(l)
    THEN [granted |-> TRUE, lock |-> AddOwn([l EXCEPT !.r_state = @ + 1], t, "RL")]
    ELSE [granted |-> FALSE, lock |-> [l EXCEPT !.read_waiters = Append(@, t)]]

\* acquire_write up to its first suspension (no task upgrades a read lock)
acquire_write(l, t) ==
    IF Owns(l, t, "WL") \/ (l.r_state = 0 /\ l.w_state = 0)
    THEN [granted |-> TRUE, lock |-> AddOwn([l EXCEPT !.w_state = @ + 1], t, "WL")]
    ELSE [granted |-> FALSE, lock |-> [l EXCEPT !.write_waiters = Append(@, t)]]

acquire(l, t, ty) == IF ty = "RL" THEN acquire_read(l, t) ELSE acquire_write(l, t)

\* a woken waiter resumes after `await fut`: it records ownership and leaves
\* the queue (the state counter was already raised by _wake_up)
resume_waiter(l, t, ty) ==
    LET m == AddOwn(l, t, ty) IN
    [m EXCEPT !.woken = @ \ {t},
              !.read_waiters = IF ty = "RL" THEN RemoveWaiter(@, t) ELSE @,
              !.write_waiters = IF ty = "WL" THEN RemoveWaiter(@, t) ELSE @]

\* _wake_up: with nobody reading or writing, the first waiting writer, else
\* every waiting reader
wake_up(l) ==
    IF l.r_state = 0 /\ l.w_state = 0
    THEN IF l.write_waiters # <<>>
         THEN [l EXCEPT !.woken = @ \cup {Head(l.write_waiters)},
                        !.w_state = @ + 1]
         ELSE IF l.read_waiters # <<>>
              THEN [l EXCEPT !.woken = @ \cup {l.read_waiters[i] : i \in 1..Len(l.read_waiters)},
                             !.r_state = @ + Len(l.read_waiters)]
              ELSE l
    ELSE l

\* _release: one level of the counter, then _wake_up
ReleaseState(l, ty) ==
    IF ty = "RL" THEN [l EXCEPT !.r_state = @ - 1] ELSE [l EXCEPT !.w_state = @ - 1]

\* release: drops a read entry of the task if it has one, else a write entry
release(l, t) ==
    LET ty == IF Owns(l, t, "RL") THEN "RL" ELSE "WL" IN
    wake_up(ReleaseState([l EXCEPT !.owning[t][ty] = @ - 1], ty))

\* --------------------------------------------------------------- languages
\* src.lower().split('_', 1)[0] on the codes the callers of this model pass
lower_split(s) ==
    CASE s = "FR_ca" -> "fr"
      [] s = "LA" -> "la"
      [] OTHER -> s

\* the three-table lookup of translate / translate_to_detect for src
NormSrc(s) ==
    LET c == lower_split(s) IN
    IF c = "auto" \/ c \in LANGUAGES THEN [ok |-> TRUE, code |-> c]
    ELSE IF c \in DOMAIN SPECIAL_CASES THEN [ok |-> TRUE, code |-> SPECIAL_CASES[c]]
    ELSE IF c \in DOMAIN LANGCODES THEN [ok |-> TRUE, code |-> LANGCODES[c]]
    ELSE [ok |-> FALSE, code |-> c]

\* ... and for dest (not lower-cased, 'auto' is no destination)
NormDestAny(d) == [ok |-> TRUE, code |-> d]
NormDest(d) ==
    IF d \in LANGUAGES THEN [ok |-> TRUE, code |-> d]
    ELSE IF d \in DOMAIN SPECIAL_CASES THEN [ok |-> TRUE, code |-> SPECIAL_CASES[d]]
    ELSE IF d \in DOMAIN LANGCODES THEN [ok |-> TRUE, code |-> LANGCODES[d]]
    ELSE [ok |-> FALSE, code |-> d]

\* --------------------------------------------------------------- responses
\* A response body: whether it holds the upstream rate-limit phrase, and what
\* a decoder finds in it: "bad" (not the expected JSON), "short" (JSON that
\* parses and holds the translation, but no language entry) or the language code
\* the payload reports for the source text.
Contents == {"bad", "short", "en", "fr"}
Bodies == [phrase : BOOLEAN, content : Contents]
Statuses == {200, 429}
Responses == [status : Statuses, body : Bodies]
NoBody == [phrase |-> FALSE, content |-> "bad"]

\* the translation the service returns for a text
Tr(text) == "tr:" \o text

\* exception kinds
RateLimitError == "RateLimitError"
ValueError == "ValueError"               \* invalid source / destination language
StatusError == "Exception"               \* Exception('Unexpected status code ...')
MalformedError == "MalformedResponse"    \* JSONDecodeError, IndexError, TypeError
TransportError == "ClientError"          \* aiohttp.ClientError, asyncio.TimeoutError
AttributeError == "AttributeError"       \* None.get / None.post
SessionClosedError == "RuntimeError"     \* RuntimeError('Session is closed')

\* ------------------------------------------------------------------- state
VARIABLES
    session,          \* self._session: a session id, or NoSession
    connector,        \* self.connector: a connector id, or NoSession
    closed,           \* ids of the sessions whose .closed is True
    connClosed,       \* ids of the connectors whose .closed is True
    built,            \* built[id]: the transport session id was constructed with
    proxy,            \* self.proxy
    proxy_auth,       \* self.proxy_auth
    token_acquirer,   \* the session id the TokenAcquirer is bound to, or NoSession
    client_type,      \* 'webapp' or 'gtx'
    raise_exception,  \* self.raise_exception
    rwlock,           \* self.rwlock
    DUMMY_DATA,       \* DUMMY_DATA[0][0][0] of the module-level placeholder
    task,             \* the coroutines
    opsLeft,          \* public calls the callers may still start
    lastWriter,       \* history: how the last finished close / change_proxy ended
    scan,             \* the fragment scanner of translate_to_detect on one body
    decoder,          \* the decoder of translate_to_detect on one parsed payload
    service           \* self.service_urls and the hosts the requests are sent to

vars == <<session, connector, closed, connClosed, built, proxy, proxy_auth,
          token_acquirer, client_type, raise_exception, rwlock, DUMMY_DATA,
          task, opsLeft, lastWriter, scan, decoder, service>>

translator == <<session, connector, closed, connClosed, built, proxy, proxy_auth,
                token_acquirer>>
config == <<client_type, raise_exception>>

\* the values a decoded JSON payload is made of: null, a string, a number, a list
Null == [t |-> "null", s |-> "", l |-> <<>>]
Str(x) == [t |-> "str", s |-> x, l |-> <<>>]
Num == [t |-> "num", s |-> "", l |-> <<>>]
List(xs) == [t |-> "list", s |-> "", l |-> xs]

\* the service hosts are not followed
NoService == [pc |-> "off", given |-> FALSE, configured |-> <<>>, service_urls |-> <<>>,
              token |-> "", host |-> "", tokens |-> 0, requests |-> <<>>]

\* no payload is being decoded
NoDecode == [pc |-> "off", arg |-> Str(""), src |-> Str(""), parsed |-> Null,
             result |-> Null]

\* no body is being scanned
NoScan == [pc |-> "off", body |-> <<>>, resp |-> <<>>, outcome |-> ""]

\* what change_proxy finds installed when it is granted the writer permit
NoBefore == [session |-> NoSession, connector |-> NoSession, proxy |-> None,
             proxy_auth |-> None, token_acquirer |-> NoSession]
Installed == [session |-> session, connector |-> connector, proxy |-> proxy,
              proxy_auth |-> proxy_auth, token_acquirer |-> token_acquirer]

NoSent == [session |-> NoSession, proxy |-> None, proxy_auth |-> None, via |-> NoSession]

IdleTask ==
    [pc |-> "idle", op |-> "", handle |-> NoSession,
     items |-> <<>>, isList |-> FALSE, idx |-> 0,
     src |-> "", dest |-> "", pinned |-> "",
     argProxy |-> None, argAuth |-> None,
     status |-> 0, body |-> NoBody, data |-> "", exc |-> "",
     translated |-> "", results |-> <<>>, returned |-> <<>>, outcome |-> "",
     issued |-> <<>>, sent |-> NoSent, before |-> NoBefore, teardowns |-> 0,
     rateSeen |-> FALSE, parsedRate |-> FALSE]

ReaderOps == {"translate", "translate_to_detect", "detect", "detect_legacy"}

HoldsReader(t) == Owns(rwlock, t, "RL")
HoldsWriter(t) == Owns(rwlock, t, "WL")

\* ------------------------------------------------------------- construction
\* the transport __init__ and change_proxy build for (proxy, proxy_auth)
ConnectorFor(p) == IF p # None /\ IsSocks(p) THEN "socks" ELSE "tcp"
ProxyKept(p) == IF p # None /\ ~IsSocks(p) THEN p ELSE proxy
ProxyFor(p) == IF p # None /\ ~IsSocks(p) THEN p ELSE None
ProxyAuthFor(p, a) == IF p # None /\ ~IsSocks(p) THEN BasicAuth(a) ELSE None
BuildRaises(p, a) ==
    /\ p # None
    /\ IF IsSocks(p) THEN FromUrlRaises(p) ELSE BasicAuthRaises(a)

ProxyArgs == {None, HttpProxy, SocksProxy, SocksBadProxy}
AuthArgs == {None, GoodAuth, BadAuth}

\* Translator.__init__ with the proxy arguments (p, a), which do not raise
InitWith(p, a, ops, raising) ==
    /\ session = 1
    /\ connector = 1
    /\ closed = {}
    /\ connClosed = {}
    /\ built = <<[connector |-> ConnectorFor(p), proxy |-> ProxyFor(p),
                  proxy_auth |-> ProxyAuthFor(p, a)]>>
    /\ proxy = ProxyFor(p)
    /\ proxy_auth = ProxyAuthFor(p, a)
    /\ client_type \in {"webapp", "gtx"}
    /\ token_acquirer = IF client_type = "webapp" THEN 1 ELSE NoSession
    /\ raise_exception \in raising
    /\ rwlock = NewLock
    /\ DUMMY_DATA = ""
    /\ task = [t \in Tasks |-> IdleTask]
    /\ opsLeft = ops
    /\ lastWriter = [kind |-> "init", proxy |-> p, proxy_auth |-> a, session |-> 1]

\* Spec: Translator(proxy=HttpProxy, proxy_auth=GoodAuth), raise_exception off
Init ==
    InitWith(HttpProxy, GoodAuth, MaxOps, {FALSE}) /\ scan = NoScan /\ decoder = NoDecode
    /\ service = NoService

\* SpecCall: Translator() with either setting of raise_exception
InitCall ==
    InitWith(None, None, MaxCalls, BOOLEAN) /\ scan = NoScan /\ decoder = NoDecode
    /\ service = NoService

\* ------------------------------------------------- the flow of a public call
Me(t) == task[t]

\* A coroutine hands its result (or its exception) to the awaiting caller in
\* the same run of the event loop in which it finishes: no other task runs
\* between the return statement and the caller resuming.
Quiet == \A u \in Tasks : task[u].pc # "done"

Text(tr) == tr.items[tr.idx]

\* the call ends (its locals go out of scope)
Finish(tr, out) ==
    [tr EXCEPT !.pc = "done", !.outcome = out, !.exc = "", !.handle = NoSession,
               !.status = 0, !.body = NoBody, !.data = "", !.translated = ""]

\* an exception leaves the public call: nothing is returned
FailPartial(tr, e) == Finish([tr EXCEPT !.returned = tr.results], e)
Fail(tr, e) == Finish(tr, e)

\* translate / detect_legacy on a list: the for loop reaches item i; each item
\* is a recursive call (translate normalises src and dest again)
NextItem(tr, i) ==
    IF i > Len(tr.items)
    THEN Finish([tr EXCEPT !.returned = tr.results], "ok")
    ELSE IF tr.isList /\ tr.op = "translate"
            /\ ~(NormSrc(tr.pinned).ok /\ NormDest(tr.dest).ok)
         THEN Fail(tr, ValueError)
         ELSE [tr EXCEPT !.pc = "p_acq", !.idx = i, !.exc = "", !.data = "",
                         !.translated = "", !.body = NoBody, !.status = 0,
                         !.dest = IF tr.isList /\ tr.op = "translate"
                                  THEN NormDest(tr.dest).code ELSE @,
                         !.src = IF tr.isList /\ tr.op = "translate"
                                 THEN NormSrc(tr.pinned).code ELSE tr.pinned]

\* the value one (recursive) call returns is appended; a call on a single text
\* returns it
ItemDonePrepend(tr, res) ==
    LET r == [tr EXCEPT !.results = <<res>> \o @] IN
    IF tr.isList THEN NextItem(r, tr.idx + 1)
    ELSE Finish([r EXCEPT !.returned = r.results], "ok")
ItemDone(tr, res) ==
    LET r == [tr EXCEPT !.results = Append(@, res)] IN
    IF tr.isList THEN NextItem(r, tr.idx + 1)
    ELSE Finish([r EXCEPT !.returned = r.results], "ok")

\* translate: Translated(src=src, dest=dest, origin=origin, text=translated, ...)
Assemble(tr) ==
    ItemDone(tr, [src |-> tr.src, dest |-> tr.dest, origin |-> Text(tr),
                  text |-> tr.translated])

\* translate, `except RateLimitError: raise` before `except Exception: pass`
AuxPropagatesNothing(e) == FALSE
AuxPropagates(e) == e = RateLimitError

\* an exception leaves translate_to_detect
AuxRaise(tr, e) ==
    IF tr.op = "translate"
    THEN IF AuxPropagates(e) THEN Fail(tr, e) ELSE Assemble([tr EXCEPT !.exc = ""])
    ELSE Fail(tr, e)

\* translate, after _translate returned: the text is read from data[0], then
\* translate_to_detect(text) is called with its defaults dest='en', src='auto'
AfterPrimaryAgain == "p_acq"
AfterPrimaryCall == "a_acq"
AfterPrimary(tr, dummy) ==
    LET r == [tr EXCEPT !.translated = IF tr.data = "dummy" THEN dummy ELSE Tr(Text(tr))]
    IN IF NormSrc("auto").ok /\ NormDest("en").ok
       THEN [r EXCEPT !.pc = AfterPrimaryCall]
       ELSE AuxRaise(r, ValueError)

\* detect_legacy: Detected(lang=src, ...) from data[8]; the placeholder holds 'en'
LegacyDetected(tr) ==
    ItemDone(tr, [src |-> IF tr.data = "dummy" THEN "en"
                          ELSE IF tr.body.content = "short" THEN ""
                          ELSE tr.body.content,
                  dest |-> "", origin |-> Text(tr), text |-> ""])

\* the src the running translate_to_detect was called with
DetectSrcArg(tr) == IF tr.op = "translate" THEN "auto" ELSE tr.src

\* translate_to_detect after _translate_to_detect returned the body
AfterAux(tr) ==
    IF tr.body.content = "bad"
    THEN AuxRaise(tr, MalformedError)
    ELSE LET found == IF DetectSrcArg(tr) = "auto" /\ tr.body.content # "short"
                      THEN tr.body.content
                      ELSE DetectSrcArg(tr)
         IN IF tr.op = "translate"
            THEN Assemble([tr EXCEPT !.src = found])
            ELSE ItemDone(tr, [src |-> found, dest |-> tr.dest, origin |-> Text(tr),
                               text |-> Tr(Text(tr))])

\* ----------------------------------------------------------- public calls
\* a caller starts a call in the first free coroutine slot
CanStart(t) ==
    /\ Quiet
    /\ task[t].pc = "idle"
    /\ opsLeft > 0
    /\ \A u \in Tasks : u < t => task[u].pc # "idle"

StartTranslate(t, items, isList, dest, src) ==
    /\ CanStart(t)
    /\ opsLeft' = opsLeft - 1
    /\ LET ns == NormSrc(src)
           nd == NormDest(dest)
           tr == [IdleTask EXCEPT !.op = "translate", !.items = items,
                                  !.isList = isList, !.idx = 1,
                                  !.pinned = ns.code, !.src = ns.code,
                                  !.dest = nd.code]
       IN task' = [task EXCEPT ![t] =
                     IF ~ns.ok \/ ~nd.ok THEN Fail(tr, ValueError)
                     ELSE NextItem(tr, 1)]
    /\ UNCHANGED <<translator, config, scan, decoder, service, rwlock, DUMMY_DATA, lastWriter>>

StartTranslateToDetect(t, text, dest, src) ==
    /\ CanStart(t)
    /\ opsLeft' = opsLeft - 1
    /\ LET ns == NormSrc(src)
           nd == NormDest(dest)
           tr == [IdleTask EXCEPT !.op = "translate_to_detect", !.items = <<text>>,
                                  !.idx = 1, !.pinned = ns.code, !.src = ns.code,
                                  !.dest = nd.code]
       IN task' = [task EXCEPT ![t] =
                     IF ~ns.ok \/ ~nd.ok THEN Fail(tr, ValueError)
                     ELSE [tr EXCEPT !.pc = "a_acq"]]
    /\ UNCHANGED <<translator, config, scan, decoder, service, rwlock, DUMMY_DATA, lastWriter>>

\* detect(text) is translate_to_detect(text, src='auto', dest='en')
StartDetect(t, text) ==
    /\ CanStart(t)
    /\ opsLeft' = opsLeft - 1
    /\ LET ns == NormSrc("auto")
           nd == NormDest("en")
           tr == [IdleTask EXCEPT !.op = "detect", !.items = <<text>>,
                                  !.idx = 1, !.pinned = ns.code, !.src = ns.code,
                                  !.dest = nd.code]
       IN task' = [task EXCEPT ![t] =
                     IF ~ns.ok \/ ~nd.ok THEN Fail(tr, ValueError)
                     ELSE [tr EXCEPT !.pc = "a_acq"]]
    /\ UNCHANGED <<translator, config, scan, decoder, service, rwlock, DUMMY_DATA, lastWriter>>

StartDetectLegacy(t, items, isList) ==
    /\ CanStart(t)
    /\ opsLeft' = opsLeft - 1
    /\ task' = [task EXCEPT ![t] =
                  NextItem([IdleTask EXCEPT !.op = "detect_legacy", !.items = items,
                                            !.isList = isList, !.idx = 1,
                                            !.src = "auto", !.pinned = "auto",
                                            !.dest = "en"], 1)]
    /\ UNCHANGED <<translator, config, scan, decoder, service, rwlock, DUMMY_DATA, lastWriter>>

\* the caller takes the result (or the exception) of a finished call
Return(t) ==
    /\ Me(t).pc = "done"
    /\ task' = [task EXCEPT ![t] = IdleTask]
    /\ UNCHANGED <<translator, config, scan, decoder, service, rwlock, DUMMY_DATA, opsLeft, lastWriter>>

\* ------------------------------------------- _get_session: the reader permit
\* `async with self.rwlock.reader_lock: yield self._session`
AfterAcquire(tr, s, ctype) ==
    [tr EXCEPT !.handle = s,
               !.pc = IF tr.pc \in {"p_acq", "p_wait"}
                      THEN (IF ctype = "webapp" THEN "p_token" ELSE "p_send")
                      ELSE "a_send"]

AcquireReader(t) ==
    /\ Quiet
    /\ Me(t).pc \in {"p_acq", "a_acq"}
    /\ LET r == acquire_read(rwlock, t) IN
       /\ rwlock' = r.lock
       /\ task' = [task EXCEPT ![t] =
                     IF r.granted THEN AfterAcquire(Me(t), session, client_type)
                     ELSE [Me(t) EXCEPT !.pc = IF Me(t).pc = "p_acq" THEN "p_wait"
                                               ELSE "a_wait"]]
    /\ UNCHANGED <<translator, config, scan, decoder, service, DUMMY_DATA, opsLeft, lastWriter>>

ResumeReader(t) ==
    /\ Quiet
    /\ Me(t).pc \in {"p_wait", "a_wait"}
    /\ t \in rwlock.woken
    /\ rwlock' = resume_waiter(rwlock, t, "RL")
    /\ task' = [task EXCEPT ![t] = AfterAcquire(Me(t), session, client_type)]
    /\ UNCHANGED <<translator, config, scan, decoder, service, DUMMY_DATA, opsLeft, lastWriter>>

\* ------------------------------------------------------------- _translate
\* token = await self.token_acquirer.do(text)
Token(t) ==
    /\ Quiet
    /\ Me(t).pc = "p_token"
    /\ task' = [task EXCEPT ![t] =
                  [Me(t) EXCEPT !.pc = "p_send",
                                !.sent = [NoSent EXCEPT !.via = token_acquirer],
                                !.issued = Append(@, <<Me(t).idx, "token">>)]]
    /\ UNCHANGED <<translator, config, scan, decoder, service, rwlock, DUMMY_DATA, opsLeft, lastWriter>>

\* what session.get / session.post raises before any request leaves
SendError(s) ==
    IF s = NoSession THEN AttributeError
    ELSE IF s \in closed THEN SessionClosedError
    ELSE ""

\* session.get(url, params=params, proxy=self.proxy, proxy_auth=self.proxy_auth)
SendPrimary(t) ==
    /\ Quiet
    /\ Me(t).pc = "p_send"
    /\ LET e == SendError(Me(t).handle) IN
       IF e # ""
       THEN /\ rwlock' = release(rwlock, t)
            /\ task' = [task EXCEPT ![t] = Fail(Me(t), e)]
       ELSE /\ rwlock' = rwlock
            /\ task' = [task EXCEPT ![t] =
                  [Me(t) EXCEPT !.pc = "p_recv",
                                !.sent = [@ EXCEPT !.session = Me(t).handle,
                                                   !.proxy = proxy,
                                                   !.proxy_auth = proxy_auth],
                                !.issued = Append(@, <<Me(t).idx, "primary">>)]]
    /\ UNCHANGED <<translator, config, scan, decoder, service, DUMMY_DATA, opsLeft, lastWriter>>

\* status = r.status; text_response = await r.text(); then the three branches
RecvPrimary(t, resp) ==
    /\ Quiet
    /\ Me(t).pc = "p_recv"
    /\ LET tr == [Me(t) EXCEPT !.pc = "p_exit", !.status = resp.status,
                               !.body = resp.body,
                               !.rateSeen = @ \/ resp.body.phrase]
       IN IF resp.status = 200
          THEN \* data = await utils.format_json(text_response)
               /\ task' = [task EXCEPT ![t] =
                     [tr EXCEPT !.parsedRate = @ \/ resp.body.phrase,
                                !.data = IF resp.body.content = "bad" THEN "" ELSE "json",
                                !.exc = IF resp.body.content = "bad"
                                        THEN MalformedError ELSE ""]]
               /\ DUMMY_DATA' = DUMMY_DATA
          ELSE IF raise_exception
               THEN /\ task' = [task EXCEPT ![t] = [tr EXCEPT !.exc = StatusError]]
                    /\ DUMMY_DATA' = DUMMY_DATA
               ELSE \* DUMMY_DATA[0][0][0] = text; return DUMMY_DATA, r
                    /\ task' = [task EXCEPT ![t] = [tr EXCEPT !.data = "dummy"]]
                    /\ DUMMY_DATA' = Text(Me(t))
    /\ UNCHANGED <<translator, config, scan, decoder, service, rwlock, opsLeft, lastWriter>>

\* the transport fails (connection, TLS, proxy, timeout)
TransportFails(t) ==
    /\ Quiet
    /\ Me(t).pc \in {"p_recv", "a_recv"}
    /\ task' = [task EXCEPT ![t] =
                  [Me(t) EXCEPT !.pc = IF Me(t).pc = "p_recv" THEN "p_exit" ELSE "a_exit",
                                !.exc = TransportError]]
    /\ UNCHANGED <<translator, config, scan, decoder, service, rwlock, DUMMY_DATA, opsLeft, lastWriter>>

\* the response and the reader permit are released; the caller goes on
ExitPrimary(t) ==
    /\ Quiet
    /\ Me(t).pc = "p_exit"
    /\ rwlock' = release(rwlock, t)
    /\ task' = [task EXCEPT ![t] =
                  IF Me(t).exc # "" THEN Fail(Me(t), Me(t).exc)
                  ELSE IF Me(t).op = "translate" THEN AfterPrimary(Me(t), DUMMY_DATA)
                  ELSE LegacyDetected(Me(t))]
    /\ UNCHANGED <<translator, config, scan, decoder, service, DUMMY_DATA, opsLeft, lastWriter>>

\* ---------------------------------------------------- _translate_to_detect
\* session.post(url, params=params, data=data, proxy=..., proxy_auth=...)
SendAux(t) ==
    /\ Quiet
    /\ Me(t).pc = "a_send"
    /\ LET e == SendError(Me(t).handle) IN
       IF e # ""
       THEN /\ rwlock' = release(rwlock, t)
            /\ task' = [task EXCEPT ![t] = AuxRaise(Me(t), e)]
       ELSE /\ rwlock' = rwlock
            /\ task' = [task EXCEPT ![t] =
                  [Me(t) EXCEPT !.pc = "a_recv",
                                !.sent = [@ EXCEPT !.session = Me(t).handle,
                                                   !.proxy = proxy,
                                                   !.proxy_auth = proxy_auth],
                                !.issued = Append(@, <<Me(t).idx, "aux">>)]]
    /\ UNCHANGED <<translator, config, scan, decoder, service, DUMMY_DATA, opsLeft, lastWriter>>

\* the two checks of _translate_to_detect, in the order the code makes them
AuxCheck(status, body, raising) ==
    IF status # 200 /\ raising THEN StatusError
    ELSE IF body.phrase THEN RateLimitError
    ELSE ""

RecvAux(t, resp) ==
    /\ Quiet
    /\ Me(t).pc = "a_recv"
    /\ task' = [task EXCEPT ![t] =
                  [Me(t) EXCEPT !.pc = "a_exit", !.status = resp.status,
                                !.body = resp.body,
                                !.rateSeen = @ \/ resp.body.phrase,
                                !.exc = AuxCheck(resp.status, resp.body, raise_exception)]]
    /\ UNCHANGED <<translator, config, scan, decoder, service, rwlock, DUMMY_DATA, opsLeft, lastWriter>>

\* the permit is released; translate_to_detect scans and decodes the body
ExitAux(t) ==
    /\ Quiet
    /\ Me(t).pc = "a_exit"
    /\ rwlock' = release(rwlock, t)
    /\ task' = [task EXCEPT ![t] =
                  IF Me(t).exc # "" THEN AuxRaise(Me(t), Me(t).exc)
                  ELSE AfterAux([Me(t) EXCEPT !.parsedRate = @ \/ Me(t).body.phrase])]
    /\ UNCHANGED <<translator, config, scan, decoder, service, DUMMY_DATA, opsLeft, lastWriter>>

\* ------------------------------------------------------- the writer permit
\* `async with self.rwlock.writer_lock:` of close and of change_proxy; the
\* close() that change_proxy awaits asks for the permit again ("c_acq")
writer_lock_shared == "RL"
writer_lock == "WL"

AfterWriter(tr) ==
    IF tr.pc \in {"w_acq", "w_wait"} /\ tr.op = "change_proxy"
    THEN [tr EXCEPT !.pc = "c_acq", !.before = Installed]
    ELSE [tr EXCEPT !.pc = "c_sess"]

AcquireWriter(t) ==
    /\ Quiet
    /\ Me(t).pc \in {"w_acq", "c_acq"}
    /\ LET r == acquire(rwlock, t, writer_lock) IN
       /\ rwlock' = r.lock
       /\ task' = [task EXCEPT ![t] =
                     IF r.granted THEN AfterWriter(Me(t))
                     ELSE [Me(t) EXCEPT !.pc = IF Me(t).pc = "w_acq" THEN "w_wait"
                                               ELSE "c_wait"]]
    /\ UNCHANGED <<translator, config, scan, decoder, service, DUMMY_DATA, opsLeft, lastWriter>>

ResumeWriter(t) ==
    /\ Quiet
    /\ Me(t).pc \in {"w_wait", "c_wait"}
    /\ t \in rwlock.woken
    /\ rwlock' = resume_waiter(rwlock, t, writer_lock)
    /\ task' = [task EXCEPT ![t] = AfterWriter(Me(t))]
    /\ UNCHANGED <<translator, config, scan, decoder, service, DUMMY_DATA, opsLeft, lastWriter>>

\* ------------------------------------------------------------------ close
StartClose(t) ==
    /\ CanStart(t)
    /\ opsLeft' = opsLeft - 1
    /\ task' = [task EXCEPT ![t] = [IdleTask EXCEPT !.op = "close", !.pc = "w_acq"]]
    /\ UNCHANGED <<translator, config, scan, decoder, service, rwlock, DUMMY_DATA, lastWriter>>

\* `except Exception: pass` around the two teardown awaits of close
SwallowedNot(e) == e
Swallowed(e) == ""

\* if self._session is not None and not self._session.closed:
\*     await self._session.close()        (it closes the connector it owns)
CloseSession(t, raises) ==
    /\ Quiet
    /\ Me(t).pc = "c_sess"
    /\ IF session # NoSession /\ session \notin closed
       THEN /\ closed' = IF raises THEN closed ELSE closed \cup {session}
            /\ connClosed' = IF raises THEN connClosed ELSE connClosed \cup {session}
            /\ session' = session
            /\ task' = [task EXCEPT ![t] =
                          [Me(t) EXCEPT !.pc = "c_sess_ret", !.teardowns = @ + 1,
                                        !.exc = IF raises THEN Swallowed(TransportError)
                                                ELSE ""]]
       ELSE \* finally: self._session = None
            /\ raises = FALSE
            /\ session' = NoSession
            /\ task' = [task EXCEPT ![t] = [Me(t) EXCEPT !.pc = "c_conn"]]
            /\ UNCHANGED <<closed, connClosed>>
    /\ UNCHANGED <<connector, built, proxy, proxy_auth, token_acquirer, config, scan, decoder, service,
                   rwlock, DUMMY_DATA, opsLeft, lastWriter>>

\* an exception that close did not swallow leaves it through both finally
\* blocks and the writer permit
CloseReturn(tr) ==
    IF tr.exc # "" THEN Fail(tr, tr.exc)
    ELSE IF tr.op = "close" THEN Finish(tr, "ok")
    ELSE [tr EXCEPT !.pc = "x_build"]

ClosedBy(tr, w) ==
    IF tr.op = "close" \/ tr.exc # ""
    THEN [kind |-> "close", proxy |-> None, proxy_auth |-> None, session |-> NoSession]
    ELSE w

\* session.close() returned or raised; finally: self._session = None
CloseSessionReturn(t) ==
    /\ Quiet
    /\ Me(t).pc = "c_sess_ret"
    /\ session' = NoSession
    /\ task' = [task EXCEPT ![t] = [Me(t) EXCEPT !.pc = "c_conn"]]
    /\ UNCHANGED <<connector, closed, connClosed, built, proxy, proxy_auth,
                   token_acquirer, config, scan, decoder, service, rwlock, DUMMY_DATA, opsLeft, lastWriter>>

\* if self.connector is not None and not self.connector.closed:
\*     await self.connector.close()
CloseConnector(t, raises) ==
    /\ Quiet
    /\ Me(t).pc = "c_conn"
    /\ IF connector # NoSession /\ connector \notin connClosed
       THEN /\ connClosed' = IF raises THEN connClosed ELSE connClosed \cup {connector}
            /\ connector' = connector
            /\ rwlock' = rwlock
            /\ lastWriter' = lastWriter
            /\ task' = [task EXCEPT ![t] =
                          [Me(t) EXCEPT !.pc = "c_conn_ret", !.teardowns = @ + 1,
                                        !.exc = IF raises /\ @ = ""
                                                THEN Swallowed(TransportError) ELSE @]]
       ELSE \* finally: self.connector = None; the permit is released
            /\ raises = FALSE
            /\ connector' = NoSession
            /\ connClosed' = connClosed
            /\ rwlock' = release(rwlock, t)
            /\ lastWriter' = ClosedBy(Me(t), lastWriter)
            /\ task' = [task EXCEPT ![t] = CloseReturn(Me(t))]
    /\ UNCHANGED <<session, closed, built, proxy, proxy_auth, token_acquirer,
                   config, scan, decoder, service, DUMMY_DATA, opsLeft>>

\* connector.close() returned or raised; finally: self.connector = None
CloseConnectorReturn(t) ==
    /\ Quiet
    /\ Me(t).pc = "c_conn_ret"
    /\ connector' = NoSession
    /\ rwlock' = release(rwlock, t)
    /\ lastWriter' = ClosedBy(Me(t), lastWriter)
    /\ task' = [task EXCEPT ![t] = CloseReturn(Me(t))]
    /\ UNCHANGED <<session, closed, connClosed, built, proxy, proxy_auth,
                   token_acquirer, config, scan, decoder, service, DUMMY_DATA, opsLeft>>

\* ----------------------------------------------------------- change_proxy
\* change_proxy takes the writer permit itself before it awaits close()
ChangeProxyStuck == "w_wait"
ChangeProxyEntry == "w_acq"

StartChangeProxy(t, p, a) ==
    /\ CanStart(t)
    /\ opsLeft' = opsLeft - 1
    /\ task' = [task EXCEPT ![t] =
                  [IdleTask EXCEPT !.op = "change_proxy", !.pc = ChangeProxyEntry,
                                   !.argProxy = p, !.argAuth = a]]
    /\ UNCHANGED <<translator, config, scan, decoder, service, rwlock, DUMMY_DATA, lastWriter>>

\* after `await self.close()`: the new transport is built and installed, or
\* building it raises; either way the writer permit is released
Build(t) ==
    /\ Quiet
    /\ Me(t).pc = "x_build"
    /\ LET p == Me(t).argProxy
           a == Me(t).argAuth
           new == Len(built) + 1
       IN IF BuildRaises(p, a)
          THEN /\ proxy' = IF IsSocks(p) THEN None ELSE p
               /\ proxy_auth' = None
               /\ UNCHANGED <<session, connector, built, token_acquirer>>
               /\ task' = [task EXCEPT ![t] =
                             Fail(Me(t), IF IsSocks(p) THEN ValueError ELSE "IndexError")]
               /\ lastWriter' = [kind |-> "change_failed", proxy |-> p,
                                 proxy_auth |-> a, session |-> NoSession]
          ELSE /\ proxy' = ProxyFor(p)
               /\ proxy_auth' = ProxyAuthFor(p, a)
               /\ connector' = new
               /\ session' = new
               /\ built' = Append(built, [connector |-> ConnectorFor(p),
                                          proxy |-> ProxyFor(p),
                                          proxy_auth |-> ProxyAuthFor(p, a)])
               /\ token_acquirer' = IF client_type = "webapp" THEN new
                                    ELSE token_acquirer
               /\ task' = [task EXCEPT ![t] =
                             Finish(Me(t), "ok")]
               /\ lastWriter' = [kind |-> "changed", proxy |-> p, proxy_auth |-> a,
                                 session |-> new]
    /\ rwlock' = release(rwlock, t)
    /\ UNCHANGED <<closed, connClosed, config, scan, decoder, service, DUMMY_DATA, opsLeft>>

\* ---------------------------------------------------------- specifications
Texts == {"a", "b"}
\* in Spec the coroutine slots translate different texts
TextOf(t) == IF t = 1 THEN "a" ELSE "b"

\* Spec: NumTasks coroutines share the translator; the service answers
\* normally or with its rate-limit page
ConcResponses ==
    {[status |-> 200, body |-> [phrase |-> FALSE, content |-> "en"]],
     [status |-> 429, body |-> [phrase |-> TRUE, content |-> "bad"]]}

ChangeArgs ==
    {<<None, None>>, <<HttpProxy, GoodAuth>>, <<HttpProxy, BadAuth>>,
     <<SocksProxy, GoodAuth>>, <<SocksBadProxy, None>>}

Next ==
    \E t \in Tasks :
        \/ StartTranslate(t, <<TextOf(t)>>, FALSE, "fr", "auto")
        \/ StartClose(t)
        \/ \E c \in ChangeArgs : StartChangeProxy(t, c[1], c[2])
        \/ AcquireReader(t)
        \/ ResumeReader(t)
        \/ Token(t)
        \/ SendPrimary(t)
        \/ \E resp \in ConcResponses : RecvPrimary(t, resp)
        \/ ExitPrimary(t)
        \/ SendAux(t)
        \/ \E resp \in ConcResponses : RecvAux(t, resp)
        \/ ExitAux(t)
        \/ AcquireWriter(t)
        \/ ResumeWriter(t)
        \/ \E raises \in BOOLEAN : CloseSession(t, raises)
        \/ CloseSessionReturn(t)
        \/ \E raises \in BOOLEAN : CloseConnector(t, raises)
        \/ CloseConnectorReturn(t)
        \/ Build(t)
        \/ Return(t)

Spec == Init /\ [][Next]_vars

\* SpecLive: readers keep arriving (their calls are not counted), the callers
\* start at most MaxWriterCalls close / change_proxy calls, and the event loop runs
\* every task that is ready: a coroutine that can take its next step
\* eventually takes it, and every request in flight is eventually answered
\* or fails.
ArriveTranslate(t) ==
    /\ Quiet
    /\ task[t].pc = "idle"
    /\ \A u \in Tasks : u < t => task[u].pc # "idle"
    /\ task' = [task EXCEPT ![t] =
                  NextItem([IdleTask EXCEPT !.op = "translate",
                                            !.items = <<TextOf(t)>>, !.idx = 1,
                                            !.pinned = NormSrc("auto").code,
                                            !.src = NormSrc("auto").code,
                                            !.dest = NormDest("fr").code], 1)]
    /\ UNCHANGED <<translator, config, scan, decoder, service, rwlock, DUMMY_DATA, opsLeft, lastWriter>>

\* the service answers every request of SpecLive normally
LiveResponses == {[status |-> 200, body |-> [phrase |-> FALSE, content |-> "en"]]}

Run(t) ==
    \/ AcquireReader(t)
    \/ ResumeReader(t)
    \/ Token(t)
    \/ SendPrimary(t)
    \/ \E resp \in LiveResponses : RecvPrimary(t, resp)
    \/ ExitPrimary(t)
    \/ SendAux(t)
    \/ \E resp \in LiveResponses : RecvAux(t, resp)
    \/ ExitAux(t)
    \/ AcquireWriter(t)
    \/ ResumeWriter(t)
    \/ \E raises \in BOOLEAN : CloseSession(t, raises)
    \/ CloseSessionReturn(t)
    \/ \E raises \in BOOLEAN : CloseConnector(t, raises)
    \/ CloseConnectorReturn(t)
    \/ Build(t)
    \/ Return(t)

NextLive ==
    \E t \in Tasks :
        \/ ArriveTranslate(t)
        \/ StartClose(t)
        \/ \E c \in ChangeArgs : StartChangeProxy(t, c[1], c[2])
        \/ AcquireReader(t)
        \/ ResumeReader(t)
        \/ Token(t)
        \/ SendPrimary(t)
        \/ \E resp \in LiveResponses : RecvPrimary(t, resp)
        \/ ExitPrimary(t)
        \/ SendAux(t)
        \/ \E resp \in LiveResponses : RecvAux(t, resp)
        \/ ExitAux(t)
        \/ AcquireWriter(t)
        \/ ResumeWriter(t)
        \/ \E raises \in BOOLEAN : CloseSession(t, raises)
        \/ CloseSessionReturn(t)
        \/ \E raises \in BOOLEAN : CloseConnector(t, raises)
        \/ CloseConnectorReturn(t)
        \/ Build(t)
        \/ Return(t)

InitLive ==
    /\ InitWith(HttpProxy, GoodAuth, MaxWriterCalls, {FALSE})
    /\ scan = NoScan /\ decoder = NoDecode
    /\ service = NoService

\* The ready queue of the event loop is first-in first-out: a task that is
\* ready again and again is run, whatever the other tasks do in between.
SpecLive == InitLive /\ [][NextLive]_vars /\ \A t \in Tasks : SF_vars(Run(t))

\* SpecCall: one caller, one call after the other, every kind of answer
SrcInputs == {"auto", "la", "FR_ca", "xx"}
DestInputs == {"en", "french", "xx"}
ItemLists == UNION {[1..n -> Texts] : n \in 0..MaxItems}

\* the public calls of SpecCall, the arguments drawn once the caller is free
CallTranslate(t) ==
    /\ CanStart(t)
    /\ \E text \in Texts, d \in DestInputs, s \in SrcInputs :
           StartTranslate(t, <<text>>, FALSE, d, s)

CallTranslateList(t) ==
    /\ CanStart(t)
    /\ \E items \in ItemLists, d \in DestInputs, s \in SrcInputs :
           StartTranslate(t, items, TRUE, d, s)

CallTranslateToDetect(t) ==
    /\ CanStart(t)
    /\ \E text \in Texts, d \in DestInputs, s \in SrcInputs :
           StartTranslateToDetect(t, text, d, s)

CallDetect(t) == CanStart(t) /\ \E text \in Texts : StartDetect(t, text)

CallDetectLegacy(t) ==
    /\ CanStart(t)
    /\ \E text \in Texts : StartDetectLegacy(t, <<text>>, FALSE)

CallDetectLegacyList(t) ==
    /\ CanStart(t)
    /\ \E items \in ItemLists : StartDetectLegacy(t, items, TRUE)

NextCall ==
    \/ CallTranslate(1)
    \/ CallTranslateList(1)
    \/ CallTranslateToDetect(1)
    \/ CallDetect(1)
    \/ CallDetectLegacy(1)
    \/ CallDetectLegacyList(1)
    \/ AcquireReader(1)
    \/ Token(1)
    \/ SendPrimary(1)
    \/ \E resp \in Responses : RecvPrimary(1, resp)
    \/ TransportFails(1)
    \/ ExitPrimary(1)
    \/ SendAux(1)
    \/ \E resp \in Responses : RecvAux(1, resp)
    \/ ExitAux(1)
    \/ Return(1)

SpecCall == InitCall /\ [][NextCall]_vars

\* ------------------------------------------- the scanner of translate_to_detect
\* A response body is text.  Its characters are "[", "]", "q" (the double
\* quote), "b" (the backslash), "n" (the newline), "M" (the letters of RPC_ID)
\* and "x" (a digit).  Bodies are built from pieces: brackets, the quoted
\* RPC id, string literals holding a bracket, an escaped quote or an escaped
\* backslash, a digit and the newline.
Pieces == {"L", "R", "ID", "SL", "SR", "SQ", "SB", "N", "NL"}
PieceChars(p) ==
    CASE p = "L" -> <<"[">>
      [] p = "R" -> <<"]">>
      [] p = "ID" -> <<"q", "M", "q">>
      [] p = "SL" -> <<"q", "[", "q">>
      [] p = "SR" -> <<"q", "]", "q">>
      [] p = "SQ" -> <<"q", "b", "q", "q">>
      [] p = "SB" -> <<"q", "b", "b", "q">>
      [] p = "N" -> <<"x">>
      [] p = "NL" -> <<"n">>

RECURSIVE BodyText(_)
BodyText(ps) ==
    IF ps = <<>> THEN <<>> ELSE PieceChars(Head(ps)) \o BodyText(Tail(ps))

ScanBodies == UNION {[1..n -> Pieces] : n \in 0..MaxPieces}

\* data.split('\n')
RECURSIVE Split(_, _)
Split(text, line) ==
    IF text = <<>> THEN <<line>>
    ELSE IF Head(text) = "n" THEN <<line>> \o Split(Tail(text), <<>>)
    ELSE Split(Tail(text), Append(line, Head(text)))

Min(a, b) == IF a < b THEN a ELSE b
Max(a, b) == IF a > b THEN a ELSE b

\* f'"{RPC_ID}"' in line[:30]
HasToken(line) ==
    LET head == SubSeq(line, 1, Min(HeadLen, Len(line)))
    IN  \E i \in 1..Len(head) :
            /\ i + 2 <= Len(head)
            /\ head[i] = "q" /\ head[i + 1] = "M" /\ head[i + 2] = "q"

\* token_found = token_found or f'"{RPC_ID}"' in line[:30]
TokenFoundAlways(token_found, line) == TRUE
TokenFound(token_found, line) == token_found \/ HasToken(line)

\* is the quote at position i of the line taken as escaped
Escaped(line, i) == line[Max(1, i - 1)] = "b"

\* the loop over the characters of one line: c is square_bracket_counts
RECURSIVE ScanChars(_, _, _, _)
ScanChars(line, i, is_in_string, c) ==
    IF i > Len(line) THEN c
    ELSE LET char == line[i]
             ins == IF char = "q" /\ ~Escaped(line, i)
                    THEN ~is_in_string ELSE is_in_string
             c2 == IF ins THEN c
                   ELSE IF char = "[" THEN <<c[1] + 1, c[2]>>
                   ELSE IF char = "]" THEN <<c[1], c[2] + 1>>
                   ELSE c
         IN  ScanChars(line, i + 1, ins, c2)

\* does the loop over the lines stop after this line
Balanced(c) == c[1] = c[2]

\* the loop over the lines, from line k: the value of resp after the loop
RECURSIVE ScanLines(_, _, _, _, _)
ScanLines(lines, k, token_found, c, resp) ==
    IF k > Len(lines) THEN resp
    ELSE LET found == TokenFound(token_found, lines[k])
             c2 == ScanChars(lines[k], 1, FALSE, c)
         IN  IF ~found THEN ScanLines(lines, k + 1, found, c, resp)
             ELSE IF Balanced(c2) THEN resp \o lines[k]
             ELSE ScanLines(lines, k + 1, found, c2, resp \o lines[k])

Scanner(text) == ScanLines(Split(text, <<>>), 1, FALSE, <<0, 0>>, <<>>)

\* json.loads(resp) and the indexing data[0][2] that follows succeed only on
\* the text of one JSON array: strings end at the first quote that is not
\* escaped, a backslash escapes the next character, and the outermost
\* bracket closes on the last character
RECURSIVE IsJsonArrayFrom(_, _, _, _, _)
IsJsonArrayFrom(text, i, in_string, esc, depth) ==
    IF i > Len(text) THEN ~in_string /\ depth = 0 /\ Len(text) > 0
    ELSE LET ch == text[i]
         IN  IF in_string
             THEN IF esc THEN IsJsonArrayFrom(text, i + 1, TRUE, FALSE, depth)
                  ELSE IF ch = "b" THEN IsJsonArrayFrom(text, i + 1, TRUE, TRUE, depth)
                  ELSE IF ch = "q" THEN IsJsonArrayFrom(text, i + 1, FALSE, FALSE, depth)
                  ELSE ch # "n" /\ IsJsonArrayFrom(text, i + 1, TRUE, FALSE, depth)
             ELSE IF ch = "[" THEN /\ (depth > 0 \/ i = 1)
                                   /\ IsJsonArrayFrom(text, i + 1, FALSE, FALSE, depth + 1)
             ELSE IF ch = "]" THEN /\ depth > 0
                                   /\ IsJsonArrayFrom(text, i + 1, FALSE, FALSE, depth - 1)
             ELSE IF ch = "q" THEN /\ depth > 0
                                   /\ IsJsonArrayFrom(text, i + 1, TRUE, FALSE, depth)
             ELSE IF ch = "x" THEN /\ depth > 0
                                   /\ IsJsonArrayFrom(text, i + 1, FALSE, FALSE, depth)
             ELSE FALSE
IsJsonArray(text) == IsJsonArrayFrom(text, 1, FALSE, FALSE, 0)

\* the scanner is handed one body
InitScan ==
    /\ InitWith(None, None, 0, {FALSE})
    /\ client_type = "gtx"
    /\ scan \in {[pc |-> "body", body |-> b, resp |-> <<>>, outcome |-> ""] :
                    b \in ScanBodies}
    /\ decoder = NoDecode
    /\ service = NoService

\* translate_to_detect scans the body for the fragment of the call
ScanBody ==
    /\ scan.pc = "body"
    /\ scan' = [scan EXCEPT !.pc = "scanned",
                            !.resp = Scanner(BodyText(scan.body))]
    /\ UNCHANGED <<translator, config, decoder, service, rwlock, DUMMY_DATA, task,
                   opsLeft, lastWriter>>

\* data = json.loads(resp); parsed = json.loads(data[0][2])
LoadFragment ==
    /\ scan.pc = "scanned"
    /\ scan' = [scan EXCEPT !.pc = "loaded",
                            !.outcome = IF IsJsonArray(scan.resp)
                                        THEN "ok" ELSE MalformedError]
    /\ UNCHANGED <<translator, config, decoder, service, rwlock, DUMMY_DATA, task,
                   opsLeft, lastWriter>>

NextScan ==
    \/ ScanBody
    \/ LoadFragment

SpecScan == InitScan /\ [][NextScan]_vars

\* ------------------------------------------- the decoder of translate_to_detect
\* v[i] of Python: IndexError past the end of a list, TypeError on null and
\* on a number; the strings of this model have two characters, so s[2] is an
\* IndexError too
Get(v, i) ==
    IF v.t = "list" /\ i < Len(v.l)
    THEN [ok |-> TRUE, val |-> v.l[i + 1]]
    ELSE [ok |-> FALSE, val |-> Null]

\* what a payload holds where a language code is expected
Entries == {Null, Str("en"), Str("fr"), Num}

\* parsed[1], from which the translated text is read, in its working shape
WorkingParts == List(<<List(<<List(<<Null, Null, Null, Null, Null, List(<<>>)>>)>>)>>)

\* parsed[0]: null, a string, a list too short for index 2, or a list with
\* an entry at index 2
Heads ==
    {Null, Str("en"), List(<<>>), List(<<Null, Null>>)}
        \cup {List(<<Null, Null, e>>) : e \in Entries}

\* the working payloads: parsed[2] is missing or holds an entry
Payloads ==
    {List(<<h, WorkingParts>>) : h \in Heads}
        \cup {List(<<h, WorkingParts, e>>) : h \in Heads, e \in Entries}

\* the src translate_to_detect decodes with, after normalisation
DecodeSrcs == {Str(NormSrc(s).code) : s \in {x \in SrcInputs : NormSrc(x).ok}}

InitDecode ==
    /\ InitWith(None, None, 0, {FALSE})
    /\ client_type = "gtx"
    /\ scan = NoScan
    /\ service = NoService
    /\ decoder \in {[pc |-> "first", arg |-> s, src |-> s, parsed |-> p,
                      result |-> Null] :
                       s \in DecodeSrcs, p \in Payloads}

\* try: src = parsed[2]  except Exception: pass
FirstPath(r, src) == IF r.ok THEN r.val ELSE src
TryFirstPath ==
    /\ decoder.pc = "first"
    /\ decoder' = [decoder EXCEPT
                     !.pc = "second",
                     !.src = IF @ = Str("auto")
                             THEN FirstPath(Get(decoder.parsed, 2), @) ELSE @]
    /\ UNCHANGED <<translator, config, scan, service, rwlock, DUMMY_DATA, task,
                   opsLeft, lastWriter>>

\* try: src = parsed[0][2]  except Exception: pass
SecondPath(p) ==
    LET head == Get(p, 0) IN
    IF head.ok THEN Get(head.val, 2) ELSE head
TrySecondPath ==
    /\ decoder.pc = "second"
    /\ decoder' = [decoder EXCEPT
                     !.pc = "build",
                     !.src = IF @ = Str("auto")
                             THEN FirstPath(SecondPath(decoder.parsed), @) ELSE @]
    /\ UNCHANGED <<translator, config, scan, service, rwlock, DUMMY_DATA, task,
                   opsLeft, lastWriter>>

\* result = Translate_to_Detect(src=src, ...); return result
BuildResult ==
    /\ decoder.pc = "build"
    /\ decoder' = [decoder EXCEPT !.pc = "returned", !.result = decoder.src]
    /\ UNCHANGED <<translator, config, scan, service, rwlock, DUMMY_DATA, task,
                   opsLeft, lastWriter>>

NextDecode ==
    \/ TryFirstPath
    \/ TrySecondPath
    \/ BuildResult

SpecDecode == InitDecode /\ [][NextDecode]_vars

\* --------------------------------------------- service hosts and client mode
Hosts == {"translate.google.com", "translate.google.co.kr", "translate.googleapis.com"}
ApiHost == "translate.googleapis.com"
DefaultHost == "translate.google.com"

\* re.search('googleapis', url) on the hosts of this model
IsApi(url) == url = ApiHost

UrlLists == UNION {[1..n -> Hosts] : n \in 1..MaxUrls}

\* __init__: for _ in enumerate(service_urls):
\*               api_type = re.search('googleapis', service_urls[0])
ForcesApi(urls) == \E k \in 1..Len(urls) : IsApi(urls[1])

ServiceUrlsFor(given, urls) ==
    IF ~given THEN <<DefaultHost>>
    ELSE IF ForcesApi(urls) THEN <<ApiHost>>
    ELSE urls

ClientTypeFor(given, urls) ==
    IF given /\ ForcesApi(urls) THEN "gtx" ELSE "webapp"

\* Translator(service_urls=urls), or Translator(service_urls=None)
InitService ==
    /\ InitWith(None, None, 0, {FALSE})
    /\ scan = NoScan
    /\ decoder = NoDecode
    /\ service \in
          {[NoService EXCEPT !.pc = "ready", !.given = TRUE, !.configured = urls,
                             !.service_urls = ServiceUrlsFor(TRUE, urls)] :
              urls \in UrlLists}
          \cup {[NoService EXCEPT !.pc = "ready",
                                  !.service_urls = ServiceUrlsFor(FALSE, <<>>)]}
    /\ client_type = ClientTypeFor(service.given, service.configured)

\* _translate: token = ''; if self.client_type == 'webapp':
\*                 token = await self.token_acquirer.do(text)
TokenStep ==
    /\ service.pc = "ready"
    /\ Len(service.requests) < MaxRequests
    /\ service' = [service EXCEPT
                     !.pc = "pick",
                     !.token = IF client_type = "webapp" THEN "tk" ELSE "",
                     !.tokens = IF client_type = "webapp" THEN @ + 1 ELSE @]
    /\ UNCHANGED <<translator, config, scan, decoder, rwlock, DUMMY_DATA, task,
                   opsLeft, lastWriter>>

\* _pick_service_url: the only entry, or random.choice(self.service_urls)
PickServiceUrl ==
    /\ service.pc = "pick"
    /\ \E k \in 1..Len(service.service_urls) :
          /\ Len(service.service_urls) = 1 => k = 1
          /\ service' = [service EXCEPT !.pc = "send",
                                        !.host = service.service_urls[k]]
    /\ UNCHANGED <<translator, config, scan, decoder, rwlock, DUMMY_DATA, task,
                   opsLeft, lastWriter>>

\* session.get(urls.TRANSLATE.format(host=...), params=params, ...)
SendGet ==
    /\ service.pc = "send"
    /\ service' = [service EXCEPT
                     !.pc = "ready",
                     !.requests = Append(@, [host |-> service.host,
                                             token |-> service.token])]
    /\ UNCHANGED <<translator, config, scan, decoder, rwlock, DUMMY_DATA, task,
                   opsLeft, lastWriter>>

NextService ==
    \/ TokenStep
    \/ PickServiceUrl
    \/ SendGet

SpecService == InitService /\ [][NextService]_vars

\* =================================================================== claims
NoWriter == rwlock.w_state = 0
Live(s) == s # NoSession /\ s \notin closed
IsDone(t) == task[t].pc = "done"
Kinds(tr) == {tr.issued[k][2] : k \in 1..Len(tr.issued)}

\* C1: whenever a response body of a public call holds the rate-limit phrase,
\* the call ends with RateLimitError, and no body holding the phrase is ever
\* handed to a JSON parser.
C1_RateLimitOnEveryPath ==
    \A t \in Tasks :
        (task[t].op \in ReaderOps /\ task[t].rateSeen) =>
            /\ ~task[t].parsedRate
            /\ IsDone(t) => task[t].outcome = RateLimitError

\* C2: whenever no task holds the writer permit, a session is installed and it
\* is live.
C2_OneLiveSession == NoWriter => Live(session)

InWindow(t) ==
    /\ task[t].op = "change_proxy"
    /\ task[t].pc \in {"c_sess_ret", "c_conn", "c_conn_ret", "x_build"}

WindowIsExclusive ==
    \A t \in Tasks :
        InWindow(t) =>
            /\ HoldsWriter(t)
            /\ rwlock.w_state >= 1
            /\ rwlock.r_state = 0
            /\ \A u \in Tasks : ~HoldsReader(u)

InstalledIsConsistent ==
    \A u \in Tasks :
        HoldsReader(u) =>
            /\ session \notin closed
            /\ task[u].handle = session
            /\ session # NoSession =>
                  /\ proxy = built[session].proxy
                  /\ proxy_auth = built[session].proxy_auth

C4_NoReaderInsideChangeProxy ==
    /\ WindowIsExclusive
    /\ InstalledIsConsistent
    /\ \A u \in Tasks :
          HoldsReader(u) => ~(session = NoSession /\ lastWriter.kind = "change_failed")

C4_Witness ==
    \E t, u \in Tasks :
        /\ task[t].op = "change_proxy" /\ task[t].pc = "x_build"
        /\ rwlock.w_state = 1
        /\ session = NoSession
        /\ task[u].pc \in {"p_wait", "a_wait"}

\* C5: a request sent under a reader permit acquired after change_proxy(p, a)
\* returned (and no later close or change_proxy finished) goes through the
\* session that call installed, with that call's settings: the HTTP(S) proxy
\* URL and its basic auth per request, SOCKS in the connector, else no proxy.
HasSent(tr) == tr.pc \in {"p_recv", "p_exit", "a_recv", "a_exit"}

C5_RequestsUseNewProxy ==
    \A u \in Tasks :
        (lastWriter.kind = "changed" /\ HoldsReader(u)) =>
            /\ task[u].handle = lastWriter.session
            /\ Live(task[u].handle)
            /\ built[task[u].handle].connector =
                 (IF lastWriter.proxy = SocksProxy THEN "socks" ELSE "tcp")
            /\ HasSent(task[u]) =>
                  /\ task[u].sent.session = lastWriter.session
                  /\ task[u].sent.proxy =
                       (IF lastWriter.proxy = HttpProxy THEN HttpProxy ELSE None)
                  /\ task[u].sent.proxy_auth =
                       (IF lastWriter.proxy = HttpProxy THEN lastWriter.proxy_auth
                        ELSE None)

C5_Witness ==
    \E u \in Tasks :
        /\ lastWriter.kind = "changed" /\ lastWriter.proxy = SocksProxy
        /\ task[u].pc = "a_recv"
        /\ task[u].sent.session = 2

\* C6: every close() returns normally and leaves the session slot and the
\* connector slot absent, also when a teardown raises; a close() that follows
\* a close() tears nothing down and returns normally.
ClosePcs == {"c_sess", "c_sess_ret", "c_conn", "c_conn_ret"}

C6_Step(t) ==
    /\ (task[t].pc \in ClosePcs /\ task'[t].pc \notin ClosePcs) =>
          /\ session' = NoSession
          /\ connector' = NoSession
          /\ task'[t].pc = IF task[t].op = "close" THEN "done" ELSE "x_build"
          /\ task[t].op = "close" => task'[t].outcome = "ok"
    /\ (task[t].pc \in ClosePcs /\ task'[t] # task[t] /\ lastWriter.kind = "close") =>
          /\ task'[t].teardowns = 0
          /\ task'[t].pc \in {"c_conn", "done", "x_build"}

C6_CloseIdempotent == [][\A t \in Tasks : C6_Step(t)]_vars

\* Two calls were started and only session 1 was ever closed; the settings are
\* those of construction, so the other call was no change_proxy: it was a
\* close(), and this close() found nothing to tear down.
C6_Witness ==
    \E u \in Tasks :
        /\ task[u].op = "close" /\ IsDone(u) /\ task[u].teardowns = 0
        /\ task[u].outcome = "ok"
        /\ opsLeft = MaxOps - 2
        /\ closed = {1} /\ session = NoSession /\ connector = NoSession
        /\ proxy = HttpProxy /\ proxy_auth # None
        /\ lastWriter.kind = "close"

\* C7: a translate call on a list that succeeds returns one result per item,
\* result i for item i; requests are issued in item order, and a request for
\* item i+1 is issued only after item i's result has been appended.
C7_BatchInOrder ==
    \A t \in Tasks :
        (task[t].op = "translate" /\ task[t].isList) =>
            /\ \A k \in 1..Len(task[t].issued) :
                  /\ task[t].issued[k][1] <= Len(task[t].results) + 1
                  /\ \A j \in 1..k : task[t].issued[j][1] <= task[t].issued[k][1]
            /\ (IsDone(t) /\ task[t].outcome = "ok") =>
                  /\ Len(task[t].returned) = Len(task[t].items)
                  /\ \A i \in 1..Len(task[t].items) :
                        task[t].returned[i].origin = task[t].items[i]

C7_Witness ==
    \E t \in Tasks :
        /\ task[t].op = "translate" /\ task[t].isList /\ IsDone(t)
        /\ task[t].outcome = "ok"
        /\ Len(task[t].items) = 2 /\ task[t].items[1] # task[t].items[2]
        /\ Len(task[t].returned) = 2

\* C8: when the processing of item k of a list raises out of translate, the
\* batch call ends at once with that error, returns nothing, and has issued
\* no request for an item after k.
ItemRaises(tr) ==
    \/ tr.pc = "p_exit" /\ tr.exc # ""
    \/ tr.pc = "a_exit" /\ tr.exc = RateLimitError

C8_Step(t) ==
    /\ (task[t].op = "translate" /\ task[t].isList /\ ItemRaises(task[t])
          /\ task'[t] # task[t]) =>
          /\ task'[t].pc = "done"
          /\ task'[t].outcome = task[t].exc
          /\ task'[t].issued = task[t].issued
    /\ (task'[t].op = "translate" /\ task'[t].isList /\ task'[t].pc = "done"
          /\ task'[t].outcome # "ok") =>
          /\ task'[t].returned = <<>>
          /\ Len(task'[t].results) = task'[t].idx - 1
          /\ \A k \in 1..Len(task'[t].issued) : task'[t].issued[k][1] <= task'[t].idx

C8_BatchAbortsAtFirstFailure == [][\A t \in Tasks : C8_Step(t)]_vars

C8_Witness ==
    \E t \in Tasks :
        /\ task[t].op = "translate" /\ task[t].isList /\ IsDone(t)
        /\ task[t].outcome = TransportError
        /\ Len(task[t].items) = 2 /\ task[t].idx = 1
        /\ Len(task[t].issued) > 0

\* C9: in translate, when the auxiliary translate_to_detect call raises
\* RateLimitError, translate raises it; when it raises anything else,
\* translate goes on and its result carries the text of the primary response
\* and the caller's normalised src.
AuxFailure(tr) ==
    IF tr.exc # "" THEN tr.exc
    ELSE IF tr.body.content = "bad" THEN MalformedError
    ELSE ""

C9_Step(t) ==
    (task[t].op = "translate" /\ task[t].pc = "a_exit" /\ AuxFailure(task[t]) # ""
       /\ task'[t] # task[t]) =>
        IF AuxFailure(task[t]) = RateLimitError
        THEN task'[t].pc = "done" /\ task'[t].outcome = RateLimitError
        ELSE /\ task'[t].outcome \in {"", "ok"}
             /\ task'[t].results =
                   Append(task[t].results,
                          [src |-> NormSrc(task[t].pinned).code,
                           dest |-> task[t].dest,
                           origin |-> task[t].items[task[t].idx],
                           text |-> IF task[t].data = "json"
                                    THEN Tr(task[t].items[task[t].idx])
                                    ELSE task[t].translated])

C9_AuxFailureHandling == [][\A t \in Tasks : C9_Step(t)]_vars

C9_Witness ==
    \E t \in Tasks :
        /\ task[t].op = "translate" /\ ~task[t].isList /\ IsDone(t)
        /\ task[t].outcome = "ok"
        /\ "aux" \in Kinds(task[t])
        /\ task[t].returned = <<[src |-> "auto", dest |-> "fr", origin |-> "a",
                                 text |-> Tr("a")]>>

\* C10: a translate call with a pinned source language issues no auxiliary
\* detect request, and every result carries the caller's normalised src.
C10_PinnedSrcKept ==
    \A t \in Tasks :
        (task[t].op = "translate" /\ task[t].pinned # "auto") =>
            /\ "aux" \notin Kinds(task[t])
            /\ \A i \in 1..Len(task[t].results) :
                  task[t].results[i].src = task[t].pinned

\* C11: with raise_exception off, a translate call whose primary request got
\* a non-200 status reads its own text from the placeholder, and the
\* placeholder object it holds (and hands on in extra_data) carries its own
\* text for as long as the call runs.
C11_PlaceholderPerCall ==
    \A t \in Tasks :
        (task[t].op = "translate" /\ task[t].data = "dummy" /\ task[t].pc # "p_exit") =>
            /\ task[t].translated = Text(task[t])
            /\ DUMMY_DATA = Text(task[t])

\* C12: a non-200 status (body without the rate-limit phrase) is handled the
\* same way on both endpoints: with raise_exception on, the request raises;
\* with it off, the call goes on with a placeholder that carries the caller's
\* text, so translate_to_detect and detect return a result whose text is the
\* input text.
BadStatus(tr) == tr.status \notin {0, 200} /\ ~tr.body.phrase

C12_Step(t) ==
    /\ (task[t].pc \in {"p_exit", "a_exit"} /\ BadStatus(task[t]) /\ raise_exception) =>
          task[t].exc = StatusError
    /\ (task[t].pc = "p_exit" /\ BadStatus(task[t]) /\ ~raise_exception) =>
          task[t].exc = "" /\ task[t].data = "dummy"
    /\ (task[t].pc = "a_exit" /\ BadStatus(task[t]) /\ ~raise_exception
          /\ task[t].op \in {"translate_to_detect", "detect"}
          /\ task'[t] # task[t]) =>
          /\ task'[t].pc = "done"
          /\ task'[t].outcome = "ok"
          /\ Len(task'[t].returned) = 1
          /\ task'[t].returned[1].text = task[t].items[task[t].idx]

C12_StatusHandlingUniform == [][\A t \in Tasks : C12_Step(t)]_vars

\* C13: when the status is 200 and the decoder cannot extract what it needs
\* from the primary response of a call (for detect_legacy the entry at index
\* 8), the call fails; it returns no result.
PrimaryMalformed(tr) ==
    /\ tr.status = 200 /\ ~tr.body.phrase
    /\ \/ tr.op = "translate" /\ tr.pc = "p_exit" /\ tr.body.content = "bad"
       \/ tr.op = "detect_legacy" /\ tr.pc = "p_exit"
            /\ tr.body.content \in {"bad", "short"}
       \/ tr.op \in {"translate_to_detect", "detect"} /\ tr.pc = "a_exit"
            /\ tr.body.content = "bad"

C13_Step(t) ==
    (PrimaryMalformed(task[t]) /\ task'[t] # task[t]) =>
        /\ task'[t].pc = "done"
        /\ task'[t].outcome \notin {"", "ok"}
        /\ task'[t].returned = <<>>

C13_MalformedPrimaryPropagates == [][\A t \in Tasks : C13_Step(t)]_vars

\* C14: for every body with a line holding the quoted RPC id in its first 30
\* characters and a well-formed payload of that call, the fragment the scanner
\* hands to the JSON decoder is exactly the lines from the first such line
\* through the line on which the brackets outside string literals balance;
\* brackets inside string literals, escaped quotes and escaped backslashes
\* never move the place where accumulation stops.
RECURSIVE LiteralAwareCounts(_, _, _, _, _)
LiteralAwareCounts(line, i, in_string, esc, c) ==
    IF i > Len(line) THEN c
    ELSE LET ch == line[i]
         IN  IF in_string
             THEN IF esc THEN LiteralAwareCounts(line, i + 1, TRUE, FALSE, c)
                  ELSE IF ch = "b" THEN LiteralAwareCounts(line, i + 1, TRUE, TRUE, c)
                  ELSE IF ch = "q" THEN LiteralAwareCounts(line, i + 1, FALSE, FALSE, c)
                  ELSE LiteralAwareCounts(line, i + 1, TRUE, FALSE, c)
             ELSE IF ch = "q" THEN LiteralAwareCounts(line, i + 1, TRUE, FALSE, c)
             ELSE IF ch = "[" THEN LiteralAwareCounts(line, i + 1, FALSE, FALSE, <<c[1] + 1, c[2]>>)
             ELSE IF ch = "]" THEN LiteralAwareCounts(line, i + 1, FALSE, FALSE, <<c[1], c[2] + 1>>)
             ELSE LiteralAwareCounts(line, i + 1, FALSE, FALSE, c)

RECURSIVE CountsThrough(_, _, _)
CountsThrough(lines, m, k) ==
    IF k < m THEN <<0, 0>>
    ELSE LiteralAwareCounts(lines[k], 1, FALSE, FALSE, CountsThrough(lines, m, k - 1))

RECURSIVE Joined(_, _, _)
Joined(lines, m, k) ==
    IF k < m THEN <<>> ELSE Joined(lines, m, k - 1) \o lines[k]

BodyLines == Split(BodyText(scan.body), <<>>)
Matching == {m \in 1..Len(BodyLines) : HasToken(BodyLines[m])}
FirstMatch == CHOOSE m \in Matching : \A n \in Matching : m <= n
BalanceLines ==
    {k \in FirstMatch..Len(BodyLines) :
        LET c == CountsThrough(BodyLines, FirstMatch, k) IN c[1] = c[2]}
BalanceLine == CHOOSE k \in BalanceLines : \A n \in BalanceLines : k <= n
CallFragment == Joined(BodyLines, FirstMatch, BalanceLine)
PayloadWellFormed ==
    /\ Matching # {}
    /\ BalanceLines # {}
    /\ IsJsonArray(CallFragment)

C14_FragmentExact ==
    (scan.pc \in {"scanned", "loaded"} /\ PayloadWellFormed) =>
        scan.resp = CallFragment

\* C15: when no line of the body holds the quoted RPC id in its first 30
\* characters, or when from the first such line on the bracket counts outside
\* string literals are never equal at the end of a line, the scanner's
\* fragment does not decode: translate_to_detect fails with a parse error
\* and returns no result decoded from an empty or partial fragment.
NeverBalances == Matching # {} /\ BalanceLines = {}
C15_NoFragmentNoResult ==
    /\ (scan.pc \in {"scanned", "loaded"} /\ Matching = {}) => scan.resp = <<>>
    /\ (scan.pc = "loaded" /\ (Matching = {} \/ NeverBalances)) =>
            scan.outcome = MalformedError

C15_Witness ==
    /\ scan.pc = "loaded"
    /\ NeverBalances
    /\ Len(BodyLines) >= 2
    /\ FirstMatch >= 2
    /\ scan.resp # <<>>
    /\ scan.outcome = MalformedError

\* C16: a translate or translate_to_detect call whose src (lower-cased, cut at
\* the first underscore, and not 'auto') or dest is in none of the three
\* language tables ends with the invalid-language error without having
\* acquired the session or issued a token, primary or auxiliary request, and,
\* for a list, without having processed any item.
InTables(c) == c \in LANGUAGES \cup DOMAIN SPECIAL_CASES \cup DOMAIN LANGCODES
InvalidLanguage(tr) ==
    \/ tr.pinned # "auto" /\ ~InTables(tr.pinned)
    \/ ~InTables(tr.dest)
C16_InvalidLanguageFirst ==
    \A t \in Tasks :
        (task[t].op \in {"translate", "translate_to_detect"} /\ InvalidLanguage(task[t])) =>
            /\ task[t].pc = "done"
            /\ task[t].outcome = ValueError
            /\ task[t].issued = <<>>
            /\ task[t].sent = NoSent
            /\ task[t].handle = NoSession
            /\ task[t].results = <<>>
            /\ task[t].returned = <<>>
            /\ rwlock = NewLock

C16_Witness ==
    /\ task[1].op = "translate"
    /\ task[1].isList
    /\ Len(task[1].items) = MaxItems
    /\ task[1].pinned = "fr"
    /\ task[1].dest = "xx"
    /\ task[1].outcome = ValueError
    /\ task[1].issued = <<>>

\* C17: within the translate call on one text, at most one primary request
\* and at most one auxiliary request are issued, a call that returns a result
\* has issued exactly one primary request, the auxiliary request is issued
\* only after the primary response was read and the primary's reader permit
\* released, and after a failure no request is issued again.
Issued(tr, kind) == {k \in 1..Len(tr.issued) : tr.issued[k] = <<tr.idx, kind>>}
C17_Requests(tr) ==
    /\ Cardinality(Issued(tr, "primary")) <= 1
    /\ Cardinality(Issued(tr, "aux")) <= 1
    /\ \A a \in Issued(tr, "aux") : \E p \in Issued(tr, "primary") : p < a
    /\ (tr.pc = "done" /\ tr.outcome = "ok" /\ tr.items # <<>>) =>
            Cardinality(Issued(tr, "primary")) = 1
C17_Step(t) ==
    /\ task'[t].op = "translate" => C17_Requests(task'[t])
    /\ (task[t].op = "translate" /\ task[t].pc = "a_send" /\ task'[t].pc = "a_recv") =>
            /\ task[t].status # 0
            /\ rwlock.owning[t]["RL"] = 1
    /\ (task[t].op = "translate" /\ task[t].pc \in {"p_exit", "a_exit"}
          /\ task[t].exc # "") =>
            \/ task'[t].issued = task[t].issued
            \/ task'[t].idx # task[t].idx
C17_OnePrimaryThenAux == [][\A t \in Tasks : C17_Step(t)]_vars

C17_Witness ==
    /\ task[1].op = "translate"
    /\ ~task[1].isList
    /\ task[1].pc = "done"
    /\ task[1].outcome = "ok"
    /\ task[1].issued = <<<<1, "primary">>, <<1, "aux">>>>

\* C18: under fair scheduling, with every request in flight eventually
\* answered, every close and every change_proxy call that was started
\* eventually completes: change_proxy is not blocked by the writer permit it
\* holds when it awaits close(), and a waiting writer is not overtaken for
\* ever by readers that arrive after it.
WriterRunning(t) ==
    /\ task[t].op \in {"close", "change_proxy"}
    /\ task[t].pc \notin {"idle", "done"}
C18_WritersComplete ==
    \A t \in Tasks : WriterRunning(t) ~> (task[t].pc = "done")

C18_Witness ==
    /\ task[1].op = "translate" /\ HoldsReader(1)
    /\ task[2].op = "change_proxy" /\ task[2].pc = "w_wait"
    /\ task[3].op = "translate" /\ task[3].pc = "p_wait"

\* C19: when change_proxy ends with an exception, the session, connector,
\* proxy, proxy_auth and token provider of the translator are the ones it
\* found when it began, and the session it found is still open.
ChangeProxyFailed(t) ==
    /\ task[t].op = "change_proxy"
    /\ task[t].pc = "done"
    /\ task[t].outcome # "ok"
    /\ task[t].before.session # NoSession
C19_ChangeProxyFailureAtomic ==
    \A t \in Tasks :
        ChangeProxyFailed(t) =>
            /\ Installed = task[t].before
            /\ Live(session)

\* C20: with client_type 'webapp', whenever a task holds a reader permit the
\* token provider is bound to the installed session, and a token is never
\* obtained through a provider bound to a closed session.
C20_TokenProviderCurrent ==
    client_type = "webapp" =>
        \A t \in Tasks :
            HoldsReader(t) =>
                /\ token_acquirer = session
                /\ task[t].pc = "p_send" =>
                      /\ task[t].sent.via = session
                      /\ Live(task[t].sent.via)

\* C21: decoding a working payload with src 'auto' always returns a result,
\* and its source language is the entry at parsed[2] when that is a language
\* code, otherwise the entry at parsed[0][2] when that is a language code,
\* otherwise 'auto'; it is never null.
IsCode(v) == v.t = "str" /\ v.s \in LANGUAGES
CodeAt(r) == r.ok /\ IsCode(r.val)
ExpectedSrc(p) ==
    IF CodeAt(Get(p, 2)) THEN Get(p, 2).val
    ELSE IF CodeAt(SecondPath(p)) THEN SecondPath(p).val
    ELSE Str("auto")
C21_SourceFallback ==
    (decoder.pc = "returned" /\ decoder.arg = Str("auto")) =>
        /\ decoder.result = ExpectedSrc(decoder.parsed)
        /\ decoder.result # Null

\* C22: a translator constructed with a list of service URLs one of which
\* points to the googleapis client API is in 'gtx' mode with the single host
\* translate.googleapis.com, never invokes the token provider and sends
\* every request with the empty token; any other translator is in 'webapp'
\* mode with the configured hosts, and every request goes to one of them.
AnyApi(urls) == \E k \in 1..Len(urls) : IsApi(urls[k])
SentRequests == {service.requests[k] : k \in 1..Len(service.requests)}
C22_ClientMode ==
    (service.pc # "off" /\ service.given) =>
        IF AnyApi(service.configured)
        THEN /\ client_type = "gtx"
             /\ service.service_urls = <<ApiHost>>
             /\ service.tokens = 0
             /\ \A r \in SentRequests : r.token = "" /\ r.host = ApiHost
        ELSE /\ client_type = "webapp"
             /\ service.service_urls = service.configured
             /\ \A r \in SentRequests :
                   \E k \in 1..Len(service.configured) : r.host = service.configured[k]

====
